---- MODULE Spec2Model ----
(***************************************************************************)
(* Job orchestration core of src/main.py (VideoGeneratorApp): the worker   *)
(* pool of run_generation, the per-job runner generate_video_task with its *)
(* poll loop poll_for_result and download_video, and the shared rate       *)
(* limiter rate_limit_api_call.                                            *)
(*                                                                         *)
(* Time is counted in ticks; one second is TicksPerSecond ticks.  Time     *)
(* stamps of the records (start_time, last_update) are not modelled;       *)
(* end_time is modelled as set / not set (None).  Sleeps other than the    *)
(* one of the rate limiter take any number of ticks.  A "with self.lock"   *)
(* block is one step.                                                      *)
(*                                                                         *)
(* Spec runs one job against every outcome of the remote service;          *)
(* SpecRefused runs several jobs that meet at the rate limiter;  SpecPool  *)
(* runs more jobs than the pool has threads.                               *)
(***************************************************************************)
EXTENDS Integers, Sequences, FiniteSets, TLC

\* ------------------------------------------------------------------ constants
max_retries == 5
max_workers == 5
\* rounds of one poll loop (120 in the source, scaled down)
max_poll_attempts == 2
\* largest job count drawn for the full runner
MaxJobs == 2
\* largest job count drawn for the worker pool (above max_workers)
MaxPoolJobs == 6
\* clock resolution
TicksPerSecond == 2

\* the 1.0 second of rate_limit_api_call, in ticks
Interval == TicksPerSecond

\* ------------------------------------------------------------------ values
None == "None"
Set == "set"

ApiMsgs == {"m1", "m2"}

ErrImageUrl == "image url invalid"
ErrPollTimeout == "poll timeout"
ErrApi(msg) == "API error: " \o msg
ErrHttp == "HTTP error"
ErrTimeout == "request timeout"
ErrConnection == "connection error"
ErrException == "exception"
ErrPollRequestTimeout == "poll request timeout"
ErrPollConnection == "poll connection error"
ErrPollException == "poll exception"
ErrRemoteFailed == "failure_reason: error"
ErrIncomplete == "download incomplete"
ErrEmptyFile == "downloaded file empty"
ErrDownloadHttp == "download failed: HTTP"
ErrDownloadTimeout == "download timeout"
ErrDownloadConnection == "download connection error"
ErrVideoUrl == "video url invalid"

GoodUrl == "https://host/a"
BadUrl == "not a url"
WellFormedUrls == {GoodUrl}

\* faulty variant: every url passes
validate_url_any(url) == TRUE

\* validate_url: the empty url is allowed, otherwise the pattern must match
validate_url(url) == IF url = "" THEN TRUE ELSE url \in WellFormedUrls

ImageUrls == {"", BadUrl}

VARIABLES
    video_count,        \* params['video_count']
    image_url,          \* params['image_url']
    tasks,              \* self.tasks
    is_running,         \* self.is_running
    since_last_call,    \* time.time() - self.last_api_call_time, capped at Interval
    pc,                 \* position of each generate_video_task execution
    attempt,            \* loop variable of the retry loop
    poll_attempt,       \* loop variable of the poll loop
    rl_wait,            \* remaining sleep of a caller of rate_limit_api_call
    dl,                 \* locals of the download of the current poll round
    monitor,            \* position of run_generation
    grants,             \* number of grants of the rate limiter so far, capped at 2
    grant_gap,          \* ticks between the last two grants, capped at Interval
    submit_calls,       \* submit requests issued per job
    poll_calls,         \* poll requests issued in the job's current attempt
    refused_only,       \* every submit of the job so far got a non-zero code
    failed_only,        \* every submit of the job so far failed
    last_submit,        \* the outcome of the job's last submit request
    runs,               \* times the job was taken from the executor's queue
    returned,           \* what generate_video_task returned, "none" while it runs
    end_writes,         \* times an end time was written to the job's record, capped at 2
    calls_after_stop,   \* requests the running execution issued with is_running False
    disp,               \* where the main thread is in display_progress, "idle" outside
    snap,               \* the records as they were when tasks_copy was made
    shown,              \* what display_progress has read through tasks_copy so far
    waits               \* backoff waits taken per job, in seconds

vars == <<video_count, image_url, tasks, is_running, since_last_call, pc, attempt,
          poll_attempt, rl_wait, dl, monitor, grants, grant_gap, submit_calls,
          poll_calls, refused_only, failed_only, last_submit, runs, returned,
          end_writes, calls_after_stop, disp, snap, shown, waits>>

Jobs == 0 .. (video_count - 1)

Min(a, b) == IF a < b THEN a ELSE b
Max(a, b) == IF a > b THEN a ELSE b

RECURSIVE Pow2(_)
Pow2(n) == IF n = 0 THEN 1 ELSE 2 * Pow2(n - 1)

\* the record run_generation creates for every job
NewTask(i) ==
    [id |-> i, status |-> "pending", progress |-> 0, retry_count |-> 0,
     error |-> "", video_url |-> "", download_path |-> "", end_time |-> None]

NoDownload == [called |-> FALSE, url |-> "", progress |-> 0, kind |-> "none",
               total_size |-> 0, downloaded_size |-> 0, success |-> FALSE,
               result |-> "", file |-> FALSE]

NoResponse == [kind |-> "none", msg |-> ""]

\* faulty variant: the update reaches every record of the store
UpdateEvery(i, fields) ==
    [j \in DOMAIN tasks |->
        [f \in DOMAIN tasks[j] |->
            IF f \in DOMAIN fields THEN fields[f] ELSE tasks[j][f]]]

\* display_progress has read nothing yet
NothingShown == [completed |-> 0, failed |-> 0, running |-> 0, lines |-> <<>>]

\* dict.update of one record
Update(i, fields) ==
    [tasks EXCEPT ![i] =
        [f \in DOMAIN tasks[i] |->
            IF f \in DOMAIN fields THEN fields[f] ELSE tasks[i][f]]]

InitWith(counts, urls) ==
    /\ video_count \in counts
    /\ image_url \in urls
    /\ tasks = [i \in 0 .. (video_count - 1) |-> NewTask(i)]
    /\ is_running = TRUE
    /\ since_last_call = Interval
    /\ pc = [i \in 0 .. (video_count - 1) |-> "queued"]
    /\ attempt = [i \in 0 .. (video_count - 1) |-> 0]
    /\ poll_attempt = [i \in 0 .. (video_count - 1) |-> 0]
    /\ rl_wait = [i \in 0 .. (video_count - 1) |-> 0]
    /\ dl = [i \in 0 .. (video_count - 1) |-> NoDownload]
    /\ monitor = "loop"
    /\ grants = 0
    /\ grant_gap = Interval
    /\ submit_calls = [i \in 0 .. (video_count - 1) |-> 0]
    /\ poll_calls = [i \in 0 .. (video_count - 1) |-> 0]
    /\ refused_only = [i \in 0 .. (video_count - 1) |-> TRUE]
    /\ failed_only = [i \in 0 .. (video_count - 1) |-> TRUE]
    /\ last_submit = [i \in 0 .. (video_count - 1) |-> NoResponse]
    /\ runs = [i \in 0 .. (video_count - 1) |-> 0]
    /\ returned = [i \in 0 .. (video_count - 1) |-> "none"]
    /\ end_writes = [i \in 0 .. (video_count - 1) |-> 0]
    /\ calls_after_stop = [i \in 0 .. (video_count - 1) |-> 0]
    /\ disp = "idle"
    /\ snap = <<>>
    /\ shown = NothingShown
    /\ waits = [i \in 0 .. (video_count - 1) |-> <<>>]

\* One execution of generate_video_task against every outcome of the remote service.
Init == InitWith({1}, ImageUrls)

\* ------------------------------------------------------------------ worker pool
\* faulty variant: the pool gets one thread per job
WorkerLimitPerJob == video_count

\* _max_workers of run_generation
WorkerLimit == Min(max_workers, video_count)

\* executions of generate_video_task a pool thread is running
Active == {i \in Jobs : pc[i] \notin {"queued", "done"}}

\* the executor's work queue is first in, first out
CanStart(i) ==
    /\ pc[i] = "queued"
    /\ \A j \in Jobs : j < i => pc[j] # "queued"
    /\ Cardinality(Active) < WorkerLimit

\* faulty variant: the checkpoints never see the flag
CancelledNever == FALSE

\* lines 332, 461, 530: "if not self.is_running", the checkpoint of the runner
Cancelled == ~is_running

\* one more request issued after the flag was cleared
CallIssued(n) == IF is_running THEN n ELSE Min(n + 1, 2)

\* a pool thread takes job i from the queue and enters generate_video_task
StartTask(i) ==
    /\ CanStart(i)
    /\ pc' = [pc EXCEPT ![i] = IF Cancelled THEN "done" ELSE "init"]
    /\ returned' = [returned EXCEPT ![i] = IF Cancelled THEN "False" ELSE "none"]
    /\ runs' = [runs EXCEPT ![i] = @ + 1]
    /\ UNCHANGED <<video_count, image_url, tasks, is_running, since_last_call,
                   attempt, poll_attempt, rl_wait, dl, monitor, grants, grant_gap,
                   submit_calls, poll_calls, refused_only, failed_only, last_submit,
                   end_writes, calls_after_stop, disp, snap, shown, waits>>

\* ------------------------------------------------------------------ generate_video_task
\* one more write of an end time
EndWritten(n) == Min(n + 1, 2)

\* the record exists already (run_generation created it): the fields are reset
InitTask(i) ==
    /\ pc[i] = "init"
    /\ tasks' = Update(i, [status |-> "pending", progress |-> 0, retry_count |-> 0,
                           error |-> "", video_url |-> "", end_time |-> None])
    /\ pc' = [pc EXCEPT ![i] = "validate"]
    /\ UNCHANGED <<video_count, image_url, is_running, since_last_call, attempt,
                   poll_attempt, rl_wait, dl, monitor, grants, grant_gap,
                   submit_calls, poll_calls, refused_only, failed_only, last_submit,
                   runs, returned, end_writes, calls_after_stop, disp, snap, shown,
                   waits>>

\* the optional reference image: an invalid url ends the job without a request
ValidateImage(i) ==
    /\ pc[i] = "validate"
    /\ IF image_url # "" /\ ~validate_url(image_url)
         THEN /\ tasks' = Update(i, [status |-> "failed", error |-> ErrImageUrl,
                                     end_time |-> Set])
              /\ end_writes' = [end_writes EXCEPT ![i] = EndWritten(@)]
              /\ returned' = [returned EXCEPT ![i] = "False"]
              /\ pc' = [pc EXCEPT ![i] = "done"]
         ELSE /\ pc' = [pc EXCEPT ![i] = "loop_head"]
              /\ UNCHANGED <<tasks, end_writes, returned>>
    /\ UNCHANGED <<video_count, image_url, is_running, since_last_call, attempt,
                   poll_attempt, rl_wait, dl, monitor, grants, grant_gap,
                   submit_calls, poll_calls, refused_only, failed_only, last_submit,
                   runs, calls_after_stop, disp, snap, shown, waits>>

\* faulty variant: the retry loop runs one attempt more
RetriesExhaustedLate(a) == a > max_retries

\* line 528: range(max_retries) is used up
RetriesExhausted(a) == a >= max_retries

\* head of "for attempt in range(max_retries)" and its is_running check
LoopHead(i) ==
    /\ pc[i] = "loop_head"
    /\ pc' = [pc EXCEPT ![i] = IF RetriesExhausted(attempt[i]) THEN "final"
                               ELSE IF Cancelled THEN "done"
                               ELSE "mark"]
    /\ returned' = [returned EXCEPT ![i] =
                       IF ~RetriesExhausted(attempt[i]) /\ Cancelled
                       THEN "False" ELSE @]
    /\ calls_after_stop' = [calls_after_stop EXCEPT ![i] =
                               IF ~RetriesExhausted(attempt[i]) /\ Cancelled
                               THEN 0 ELSE @]
    /\ UNCHANGED <<video_count, image_url, tasks, is_running, since_last_call,
                   attempt, poll_attempt, rl_wait, dl, monitor, grants, grant_gap,
                   submit_calls, poll_calls, refused_only, failed_only, last_submit,
                   runs, end_writes, disp, snap, shown, waits>>

\* faulty variant: the attempts are counted from 1
RetryCountFromOne(a) == a + 1

\* line 539: the retry_count written when attempt a begins
RetryCount(a) == a

\* the attempt begins: status generating, retry_count = attempt
MarkGenerating(i) ==
    /\ pc[i] = "mark"
    /\ tasks' = Update(i, [status |-> "generating",
                           retry_count |-> RetryCount(attempt[i])])
    /\ pc' = [pc EXCEPT ![i] = "rl_submit"]
    /\ UNCHANGED <<video_count, image_url, is_running, since_last_call, attempt,
                   poll_attempt, rl_wait, dl, monitor, grants, grant_gap,
                   submit_calls, poll_calls, refused_only, failed_only, last_submit,
                   runs, returned, end_writes, calls_after_stop, disp, snap, shown,
                   waits>>

\* ------------------------------------------------------------------ rate_limit_api_call
\* the sleep rate_limit_api_call computes from the time since the last call
RateLimitSleep(since) == IF since < Interval THEN Interval - since ELSE 0

\* lines 304-308: read the clock and last_api_call_time, decide the sleep
RateLimitRead(i) ==
    /\ pc[i] \in {"rl_submit", "rl_poll"}
    /\ rl_wait' = [rl_wait EXCEPT ![i] = RateLimitSleep(since_last_call)]
    /\ pc' = [pc EXCEPT ![i] = IF pc[i] = "rl_submit" THEN "rl_submit_sleep"
                               ELSE "rl_poll_sleep"]
    /\ UNCHANGED <<video_count, image_url, tasks, is_running, since_last_call,
                   attempt, poll_attempt, dl, monitor, grants, grant_gap,
                   submit_calls, poll_calls, refused_only, failed_only, last_submit,
                   runs, returned, end_writes, calls_after_stop, disp, snap, shown,
                   waits>>

\* line 310: the sleep is over, last_api_call_time = time.time(): the grant
RateLimitGrant(i) ==
    /\ pc[i] \in {"rl_submit_sleep", "rl_poll_sleep"}
    /\ rl_wait[i] = 0
    /\ since_last_call' = 0
    /\ grant_gap' = since_last_call
    /\ grants' = Min(grants + 1, 2)
    /\ pc' = [pc EXCEPT ![i] = IF pc[i] = "rl_submit_sleep" THEN "submit" ELSE "poll"]
    /\ UNCHANGED <<video_count, image_url, tasks, is_running, attempt, poll_attempt,
                   rl_wait, dl, monitor, submit_calls, poll_calls, refused_only,
                   failed_only, last_submit, runs, returned, end_writes,
                   calls_after_stop, disp, snap, shown, waits>>

\* one tick of the clock: every sleeper of the rate limiter gets closer to waking
Tick ==
    /\ \/ since_last_call < Interval
       \/ \E i \in Jobs : rl_wait[i] > 0
    /\ since_last_call' = Min(since_last_call + 1, Interval)
    /\ rl_wait' = [i \in Jobs |-> Max(rl_wait[i] - 1, 0)]
    /\ UNCHANGED <<video_count, image_url, tasks, is_running, pc, attempt,
                   poll_attempt, dl, monitor, grants, grant_gap, submit_calls,
                   poll_calls, refused_only, failed_only, last_submit, runs,
                   returned, end_writes, calls_after_stop, disp, snap, shown, waits>>

\* ------------------------------------------------------------------ submit
\* what the submit request can end in: HTTP 200 with code 0 and a task id, HTTP 200
\* with code 0 and no id (KeyError), HTTP 200 with a non-zero code and a message,
\* another HTTP status, a timeout, a connection error, any other exception
SubmitResponses ==
    {[kind |-> k, msg |-> ""] :
        k \in {"ok", "no_id", "http_error", "timeout", "connection_error", "exception"}}
    \cup {[kind |-> "api_error", msg |-> m] : m \in ApiMsgs}

\* the error text generate_video_task records for a failed submit
SubmitError(resp) ==
    CASE resp.kind = "api_error" -> ErrApi(resp.msg)
      [] resp.kind = "http_error" -> ErrHttp
      [] resp.kind = "timeout" -> ErrTimeout
      [] resp.kind = "connection_error" -> ErrConnection
      [] OTHER -> ErrException

\* lines 546-560 and 581-643: the request and what is done with its outcome
SubmitCall(i, resp) ==
    /\ pc[i] = "submit"
    /\ submit_calls' = [submit_calls EXCEPT ![i] = @ + 1]
    /\ calls_after_stop' = [calls_after_stop EXCEPT ![i] = CallIssued(@)]
    /\ poll_calls' = [poll_calls EXCEPT ![i] = 0]
    /\ refused_only' = [refused_only EXCEPT ![i] = @ /\ resp.kind = "api_error"]
    /\ failed_only' = [failed_only EXCEPT ![i] = @ /\ resp.kind # "ok"]
    /\ last_submit' = [last_submit EXCEPT ![i] = resp]
    /\ IF resp.kind = "ok"
         THEN /\ pc' = [pc EXCEPT ![i] = "poll_head"]
              /\ poll_attempt' = [poll_attempt EXCEPT ![i] = 0]
              /\ UNCHANGED tasks
         ELSE /\ tasks' = Update(i, [status |-> "failed", error |-> SubmitError(resp)])
              /\ pc' = [pc EXCEPT ![i] = "backoff"]
              /\ UNCHANGED poll_attempt
    /\ UNCHANGED <<video_count, image_url, is_running, since_last_call, attempt,
                   rl_wait, dl, monitor, grants, grant_gap, runs, returned,
                   end_writes, disp, snap, shown, waits>>

\* ------------------------------------------------------------------ poll_for_result
\* head of "for attempt in range(max_poll_attempts)" and its is_running check
PollHead(i) ==
    /\ pc[i] = "poll_head"
    /\ pc' = [pc EXCEPT ![i] = IF poll_attempt[i] >= max_poll_attempts THEN "poll_timeout"
                               ELSE IF Cancelled THEN "after_poll"
                               ELSE "rl_poll"]
    /\ UNCHANGED <<video_count, image_url, tasks, is_running, since_last_call,
                   attempt, poll_attempt, rl_wait, dl, monitor, grants, grant_gap,
                   submit_calls, poll_calls, refused_only, failed_only, last_submit,
                   runs, returned, end_writes, calls_after_stop, disp, snap, shown,
                   waits>>

PollResp(k, m, st, pr, u) ==
    [kind |-> k, msg |-> m, status |-> st, progress |-> pr, url |-> u]

\* what the poll request can end in: a transport error, a non-200 status, a non-zero
\* code, or code 0 with the remote status, the progress and the first result url
PollResponses ==
    {PollResp(k, "", "", 0, "") :
        k \in {"http_error", "timeout", "connection_error", "exception"}}
    \cup {PollResp("api_error", m, "", 0, "") : m \in ApiMsgs}
    \cup {PollResp("ok", "", "running", 50, ""),
          PollResp("ok", "", "queued", 0, ""),
          PollResp("ok", "", "", 0, ""),
          PollResp("ok", "", "failed", 50, ""),
          PollResp("ok", "", "succeeded", 100, ""),
          PollResp("ok", "", "succeeded", 100, GoodUrl),
          PollResp("ok", "", "succeeded", 90, GoodUrl),
          PollResp("ok", "", "succeeded", 100, BadUrl)}

\* line 358: the status written to the record for a remote status
PollStatus(status) == IF status = "running" THEN "generating" ELSE status

\* the next round of the poll loop, after time.sleep(poll_interval)
NextRound(i) ==
    /\ poll_attempt' = [poll_attempt EXCEPT ![i] = @ + 1]
    /\ pc' = [pc EXCEPT ![i] = "poll_head"]

\* lines 338-435: the request and what is done with its outcome, up to the download
PollCall(i, resp) ==
    /\ pc[i] = "poll"
    /\ poll_calls' = [poll_calls EXCEPT ![i] = @ + 1]
    /\ calls_after_stop' = [calls_after_stop EXCEPT ![i] = CallIssued(@)]
    /\ CASE resp.kind = "http_error" ->
              /\ NextRound(i)
              /\ UNCHANGED tasks
         [] resp.kind = "api_error" ->
              /\ tasks' = Update(i, [error |-> ErrApi(resp.msg)])
              /\ NextRound(i)
         [] resp.kind = "timeout" ->
              /\ tasks' = Update(i, [error |-> ErrPollRequestTimeout])
              /\ NextRound(i)
         [] resp.kind = "connection_error" ->
              /\ tasks' = Update(i, [error |-> ErrPollConnection])
              /\ NextRound(i)
         [] resp.kind = "exception" ->
              /\ tasks' = Update(i, [error |-> ErrPollException])
              /\ NextRound(i)
         [] resp.kind = "ok" /\ resp.status = "succeeded" /\ resp.url # "" ->
              /\ tasks' = Update(i, [progress |-> resp.progress,
                                     status |-> PollStatus(resp.status)])
              /\ pc' = [pc EXCEPT ![i] = "download"]
              /\ UNCHANGED poll_attempt
         [] resp.kind = "ok" /\ resp.status = "failed" ->
              /\ tasks' = Update(i, [progress |-> resp.progress, status |-> "failed",
                                     error |-> ErrRemoteFailed, end_time |-> Set])
              /\ pc' = [pc EXCEPT ![i] = "after_poll"]
              /\ UNCHANGED poll_attempt
         [] OTHER ->
              /\ tasks' = Update(i, [progress |-> resp.progress,
                                     status |-> PollStatus(resp.status)])
              /\ NextRound(i)
    /\ end_writes' = [end_writes EXCEPT ![i] =
                         IF resp.kind = "ok" /\ resp.status = "failed"
                         THEN EndWritten(@) ELSE @]
    /\ dl' = [dl EXCEPT ![i] = IF resp.kind = "ok" /\ resp.status = "succeeded"
                                  /\ resp.url # ""
                               THEN [NoDownload EXCEPT !.url = resp.url,
                                                       !.progress = resp.progress]
                               ELSE NoDownload]
    /\ UNCHANGED <<video_count, image_url, is_running, since_last_call, attempt,
                   rl_wait, monitor, grants, grant_gap, submit_calls, refused_only,
                   failed_only, last_submit, runs, returned, disp, snap, shown,
                   waits>>

\* ------------------------------------------------------------------ download_video
DownloadPath == "download/video.mp4"

\* what the GET of the video can end in: HTTP 200 and a body of downloaded_size bytes
\* under a content-length of total_size (0: none given), another HTTP status, a
\* timeout, or a connection error while the body is read
DownloadResponses ==
    {[kind |-> "ok", total_size |-> l, downloaded_size |-> m] :
        l \in {0, 1000}, m \in {0, 500, 1000, 1500}}
    \cup {[kind |-> k, total_size |-> 0, downloaded_size |-> 0] :
            k \in {"http_error", "timeout"}}
    \cup {[kind |-> "connection_error", total_size |-> 1000, downloaded_size |-> 500]}

DownloadResult(ok, res, resp, left) ==
    [success |-> ok, result |-> res, kind |-> resp.kind, total_size |-> resp.total_size,
     downloaded_size |-> resp.downloaded_size, file |-> left]

\* no request was made: the url did not pass validate_url
NoRequest == [kind |-> "no_request", total_size |-> 0, downloaded_size |-> 0]

\* faulty variant: the comparison of the sizes is turned around
IncompleteReversed(total_size, downloaded_size) ==
    total_size > 0 /\ downloaded_size > total_size

\* faulty variant: a body of exactly the declared length is rejected too
IncompleteOrEqual(total_size, downloaded_size) ==
    total_size > 0 /\ downloaded_size <= total_size

\* lines 272-273: the body is shorter than the declared length
Incomplete(total_size, downloaded_size) ==
    total_size > 0 /\ downloaded_size < total_size

\* download_video: (success, path or error text), and whether a file is left behind
download_video(video_url, resp) ==
    IF ~validate_url(video_url) THEN DownloadResult(FALSE, ErrVideoUrl, NoRequest, FALSE)
    ELSE CASE resp.kind = "timeout" ->
                DownloadResult(FALSE, ErrDownloadTimeout, resp, FALSE)
           [] resp.kind = "connection_error" ->
                DownloadResult(FALSE, ErrDownloadConnection, resp, TRUE)
           [] resp.kind = "http_error" ->
                DownloadResult(FALSE, ErrDownloadHttp, resp, FALSE)
           [] OTHER ->
                IF Incomplete(resp.total_size, resp.downloaded_size)
                  THEN DownloadResult(FALSE, ErrIncomplete, resp, FALSE)
                ELSE IF resp.downloaded_size = 0
                  THEN DownloadResult(FALSE, ErrEmptyFile, resp, FALSE)
                ELSE DownloadResult(TRUE, DownloadPath, resp, TRUE)

\* lines 368-388: the download of the first result url and the record's update
Download(i, resp) ==
    /\ pc[i] = "download"
    /\ LET r == download_video(dl[i].url, resp) IN
         /\ dl' = [dl EXCEPT ![i] =
                      [called |-> TRUE, url |-> dl[i].url,
                       progress |-> dl[i].progress, kind |-> r.kind,
                       total_size |-> r.total_size,
                       downloaded_size |-> r.downloaded_size, success |-> r.success,
                       result |-> r.result, file |-> r.file]]
         /\ tasks' = IF r.success
                       THEN Update(i, [status |-> "completed",
                                       download_path |-> r.result,
                                       video_url |-> dl[i].url, end_time |-> Set])
                       ELSE Update(i, [status |-> "download_failed",
                                       error |-> r.result, end_time |-> Set])
    /\ end_writes' = [end_writes EXCEPT ![i] = EndWritten(@)]
    /\ pc' = [pc EXCEPT ![i] = "after_poll"]
    /\ UNCHANGED <<video_count, image_url, is_running, since_last_call, attempt,
                   poll_attempt, rl_wait, monitor, grants, grant_gap, submit_calls,
                   poll_calls, refused_only, failed_only, last_submit, runs,
                   returned, calls_after_stop, disp, snap, shown, waits>>

\* lines 437-444: the poll loop ran out of rounds
PollTimeout(i) ==
    /\ pc[i] = "poll_timeout"
    /\ tasks' = Update(i, [status |-> "failed", error |-> ErrPollTimeout,
                           end_time |-> Set])
    /\ end_writes' = [end_writes EXCEPT ![i] = EndWritten(@)]
    /\ pc' = [pc EXCEPT ![i] = "after_poll"]
    /\ UNCHANGED <<video_count, image_url, is_running, since_last_call, attempt,
                   poll_attempt, rl_wait, dl, monitor, grants, grant_gap,
                   submit_calls, poll_calls, refused_only, failed_only, last_submit,
                   runs, returned, calls_after_stop, disp, snap, shown, waits>>

\* ---------------------------------------- generate_video_task, after the attempt
\* faulty variant: a completed job is retried like a failed one
AttemptSucceededNever(final_status) == FALSE

\* line 570: the attempt ended with the video downloaded
AttemptSucceeded(final_status) == final_status = "completed"

\* lines 565-579: poll_for_result returned; completed returns True, anything else
\* is "continue": the next iteration of the retry loop, without the backoff
AfterPoll(i) ==
    /\ pc[i] = "after_poll"
    /\ IF AttemptSucceeded(tasks[i].status)
         THEN /\ pc' = [pc EXCEPT ![i] = "done"]
              /\ returned' = [returned EXCEPT ![i] = "True"]
              /\ calls_after_stop' = [calls_after_stop EXCEPT ![i] = 0]
              /\ UNCHANGED <<attempt, dl>>
         ELSE /\ pc' = [pc EXCEPT ![i] = "loop_head"]
              /\ attempt' = [attempt EXCEPT ![i] = @ + 1]
              /\ dl' = [dl EXCEPT ![i] = NoDownload]
              /\ UNCHANGED <<returned, calls_after_stop>>
    /\ UNCHANGED <<video_count, image_url, tasks, is_running, since_last_call,
                   poll_attempt, rl_wait, monitor, grants, grant_gap, submit_calls,
                   poll_calls, refused_only, failed_only, last_submit, runs,
                   end_writes, disp, snap, shown, waits>>

\* faulty variant: a wait and a reset follow the last attempt too
NotLastAttemptAlways(a) == a < max_retries

\* faulty variant: the retry loop gives up one attempt early
NotLastAttemptEarly(a) == a < max_retries - 2

\* line 646: this was not the last attempt
NotLastAttempt(a) == a < max_retries - 1

\* faulty variant: a linear backoff
wait_time_linear(a) == a + 1

\* line 650: the backoff wait after attempt a, in seconds
wait_time(a) == Pow2(a)

\* lines 645-666: after a failed submit, sleep the backoff or leave the loop
Backoff(i) ==
    /\ pc[i] = "backoff"
    /\ IF NotLastAttempt(attempt[i]) /\ tasks[i].status = "failed" /\ is_running
         THEN /\ waits' = [waits EXCEPT ![i] = Append(@, wait_time(attempt[i]))]
              /\ pc' = [pc EXCEPT ![i] = "reset"]
         ELSE /\ pc' = [pc EXCEPT ![i] = "final"]
              /\ UNCHANGED waits
    /\ UNCHANGED <<video_count, image_url, tasks, is_running, since_last_call,
                   attempt, poll_attempt, rl_wait, dl, monitor, grants, grant_gap,
                   submit_calls, poll_calls, refused_only, failed_only, last_submit,
                   runs, returned, end_writes, calls_after_stop, disp, snap, shown>>

\* lines 654-662: the sleep is over, the record is reset for the retry
ResetForRetry(i) ==
    /\ pc[i] = "reset"
    /\ tasks' = Update(i, [status |-> "pending", error |-> ""])
    /\ attempt' = [attempt EXCEPT ![i] = @ + 1]
    /\ pc' = [pc EXCEPT ![i] = "loop_head"]
    /\ UNCHANGED <<video_count, image_url, is_running, since_last_call, poll_attempt,
                   rl_wait, dl, monitor, grants, grant_gap, submit_calls, poll_calls,
                   refused_only, failed_only, last_submit, runs, returned,
                   end_writes, calls_after_stop, disp, snap, shown, waits>>

\* lines 668-682: the loop is left, end_time is set unless it is set already
Finalize(i) ==
    /\ pc[i] = "final"
    /\ tasks' = IF tasks[i].end_time = None THEN Update(i, [end_time |-> Set])
                ELSE tasks
    /\ end_writes' = [end_writes EXCEPT ![i] =
                         IF tasks[i].end_time = None THEN EndWritten(@) ELSE @]
    /\ returned' = [returned EXCEPT ![i] =
                       IF tasks[i].status = "completed" THEN "True" ELSE "False"]
    /\ calls_after_stop' = [calls_after_stop EXCEPT ![i] = 0]
    /\ pc' = [pc EXCEPT ![i] = "done"]
    /\ UNCHANGED <<video_count, image_url, is_running, since_last_call, attempt,
                   poll_attempt, rl_wait, dl, monitor, grants, grant_gap,
                   submit_calls, poll_calls, refused_only, failed_only, last_submit,
                   runs, disp, snap, shown, waits>>

\* ------------------------------------------------------------------ display_progress
\* sum(1 for task in tasks_copy if task.get('status') in statuses): tasks_copy holds
\* the records of self.tasks themselves, so the pass reads them as they are now
CountStatus(records, statuses) ==
    Cardinality({i \in DOMAIN records : records[i].status \in statuses})

\* lines 687-689: tasks_copy = list(self.tasks), under the lock; called from the
\* monitor loop (line 968) and once more after the executor is left (line 986)
DisplaySnapshot ==
    /\ disp = "idle"
    /\ monitor \in {"loop", "summary"}
    /\ disp' = "count_completed"
    /\ snap' = tasks
    /\ shown' = NothingShown
    /\ UNCHANGED <<video_count, image_url, tasks, is_running, since_last_call, pc,
                   attempt, poll_attempt, rl_wait, dl, monitor, grants, grant_gap,
                   submit_calls, poll_calls, refused_only, failed_only, last_submit,
                   runs, returned, end_writes, calls_after_stop, waits>>

\* lines 692-696: the three passes over tasks_copy for the aggregate counts
DisplayCount ==
    /\ disp \in {"count_completed", "count_failed", "count_running"}
    /\ shown' = CASE disp = "count_completed" ->
                       [shown EXCEPT !.completed = CountStatus(tasks, {"completed"})]
                  [] disp = "count_failed" ->
                       [shown EXCEPT !.failed =
                                        CountStatus(tasks, {"failed", "download_failed"})]
                  [] OTHER ->
                       [shown EXCEPT !.running =
                                        CountStatus(tasks, {"generating", "pending"})]
    /\ disp' = CASE disp = "count_completed" -> "count_failed"
                 [] disp = "count_failed" -> "count_running"
                 [] OTHER -> "lines"
    /\ UNCHANGED <<video_count, image_url, tasks, is_running, since_last_call, pc,
                   attempt, poll_attempt, rl_wait, dl, monitor, grants, grant_gap,
                   submit_calls, poll_calls, refused_only, failed_only, last_submit,
                   runs, returned, end_writes, calls_after_stop, snap, waits>>

\* lines 706-750: the line of every job, from the records tasks_copy refers to
DisplayLines ==
    /\ disp = "lines"
    /\ shown' = [shown EXCEPT !.lines = tasks]
    /\ disp' = "shown"
    /\ UNCHANGED <<video_count, image_url, tasks, is_running, since_last_call, pc,
                   attempt, poll_attempt, rl_wait, dl, monitor, grants, grant_gap,
                   submit_calls, poll_calls, refused_only, failed_only, last_submit,
                   runs, returned, end_writes, calls_after_stop, snap, waits>>

\* display_progress returns
DisplayReturn ==
    /\ disp = "shown"
    /\ disp' = "idle"
    /\ snap' = <<>>
    /\ shown' = NothingShown
    /\ UNCHANGED <<video_count, image_url, tasks, is_running, since_last_call, pc,
                   attempt, poll_attempt, rl_wait, dl, monitor, grants, grant_gap,
                   submit_calls, poll_calls, refused_only, failed_only, last_submit,
                   runs, returned, end_writes, calls_after_stop, waits>>

\* ---------------------------------------- run_generation and run
Terminal == {"completed", "failed", "download_failed"}

\* lines 971-978: the monitor loop counts the finished records and leaves when
\* all are finished
MonitorCheck ==
    /\ monitor = "loop"
    /\ disp = "idle"
    /\ \A i \in Jobs : tasks[i].status \in Terminal
    /\ monitor' = "shutdown"
    /\ UNCHANGED <<video_count, image_url, tasks, is_running, since_last_call, pc,
                   attempt, poll_attempt, rl_wait, dl, grants, grant_gap,
                   submit_calls, poll_calls, refused_only, failed_only, last_submit,
                   runs, returned, end_writes, calls_after_stop, disp, snap, shown,
                   waits>>

\* faulty variant: the executor is left without waiting for its workers
ExecutorExitNoWait ==
    /\ monitor = "shutdown"
    /\ monitor' = "summary"
    /\ UNCHANGED <<video_count, image_url, tasks, is_running, since_last_call, pc,
                   attempt, poll_attempt, rl_wait, dl, grants, grant_gap,
                   submit_calls, poll_calls, refused_only, failed_only, last_submit,
                   runs, returned, end_writes, calls_after_stop, disp, snap, shown,
                   waits>>

\* the end of "with ThreadPoolExecutor": waits for every execution to return
ExecutorExit ==
    /\ monitor = "shutdown"
    /\ disp = "idle"
    /\ \A i \in Jobs : pc[i] = "done"
    /\ monitor' = "summary"
    /\ UNCHANGED <<video_count, image_url, tasks, is_running, since_last_call, pc,
                   attempt, poll_attempt, rl_wait, dl, grants, grant_gap,
                   submit_calls, poll_calls, refused_only, failed_only, last_submit,
                   runs, returned, end_writes, calls_after_stop, disp, snap, shown,
                   waits>>

\* run: is_running = False, after run_generation or when the user interrupts it
StopRunning ==
    /\ is_running
    /\ is_running' = FALSE
    /\ UNCHANGED <<video_count, image_url, tasks, since_last_call, pc, attempt,
                   poll_attempt, rl_wait, dl, monitor, grants, grant_gap,
                   submit_calls, poll_calls, refused_only, failed_only, last_submit,
                   runs, returned, end_writes, calls_after_stop, disp, snap, shown,
                   waits>>

\* ------------------------------------------------------------------ the store lock
\* What a handler does with self.lock, in the order of its code: "acquire" and
\* "release" are the two ends of a "with self.lock" block, "write" an update of the
\* job's record, "call" a network request, "sleep" a time.sleep.

\* faulty variant: the block is not guarded by the lock
Unlocked(events) == events

\* with self.lock: events
Locked(events) == <<"acquire">> \o events \o <<"release">>

\* lines 465-495
InitTaskEvents == Locked(<<"write">>)

\* lines 513-525: the record is written only when the image url is refused
ValidateImageEvents ==
    IF image_url # "" /\ ~validate_url(image_url) THEN Locked(<<"write">>) ELSE <<>>

\* lines 535-541
MarkGeneratingEvents == Locked(<<"write">>)

\* lines 302-310: rate_limit_api_call takes no lock
RateLimitEvents == <<"sleep">>

\* lines 547-643: the request, then the failure recorded under the lock
SubmitCallEvents(resp) ==
    IF resp.kind = "ok" THEN <<"call">> ELSE <<"call">> \o Locked(<<"write">>)

\* lines 339-435: the request, the updates under the lock, the sleep of the round
PollCallEvents(resp) ==
    CASE resp.kind = "http_error" -> <<"call", "sleep">>
      [] resp.kind \in {"api_error", "timeout", "connection_error", "exception"} ->
           <<"call">> \o Locked(<<"write">>) \o <<"sleep">>
      [] resp.kind = "ok" /\ resp.status = "succeeded" /\ resp.url # "" ->
           <<"call">> \o Locked(<<"write">>)
      [] resp.kind = "ok" /\ resp.status = "failed" ->
           <<"call">> \o Locked(<<"write">>) \o Locked(<<"write">>)
      [] OTHER -> <<"call">> \o Locked(<<"write">>) \o <<"sleep">>

\* lines 369-387: download_video, then the outcome recorded under the lock
DownloadEvents == <<"call">> \o Locked(<<"write">>)

\* lines 438-444
PollTimeoutEvents == Locked(<<"write">>)

\* lines 646-652: the backoff sleep, when the attempt is retried
BackoffEvents(i) ==
    IF NotLastAttempt(attempt[i]) /\ tasks[i].status = "failed" /\ is_running
    THEN <<"sleep">> ELSE <<>>

\* lines 655-662
ResetForRetryEvents == Locked(<<"write">>)

\* lines 673-675: the end time is written under the lock if there is none
FinalizeEvents(i) ==
    Locked(IF tasks[i].end_time = None THEN <<"write">> ELSE <<>>)

\* the lock is taken when free, released when held, held at every write and free at
\* every call and sleep, and free in the end
RECURSIVE LockDiscipline(_, _)
LockDiscipline(events, held) ==
    IF events = <<>> THEN ~held
    ELSE LET e == Head(events)
             rest == Tail(events)
         IN CASE e = "acquire" -> ~held /\ LockDiscipline(rest, TRUE)
              [] e = "release" -> held /\ LockDiscipline(rest, FALSE)
              [] e = "write" -> held /\ LockDiscipline(rest, held)
              [] OTHER -> ~held /\ LockDiscipline(rest, held)

\* ------------------------------------------------------------------ specifications
Next ==
    \/ \E i \in Jobs : StartTask(i)
    \/ \E i \in Jobs : InitTask(i)
    \/ \E i \in Jobs : ValidateImage(i)
    \/ \E i \in Jobs : LoopHead(i)
    \/ \E i \in Jobs : MarkGenerating(i)
    \/ \E i \in Jobs : RateLimitRead(i)
    \/ \E i \in Jobs : RateLimitGrant(i)
    \/ Tick
    \/ \E i \in Jobs : \E resp \in SubmitResponses : SubmitCall(i, resp)
    \/ \E i \in Jobs : PollHead(i)
    \/ \E i \in Jobs : \E resp \in PollResponses : PollCall(i, resp)
    \/ \E i \in Jobs : \E resp \in DownloadResponses : Download(i, resp)
    \/ \E i \in Jobs : PollTimeout(i)
    \/ \E i \in Jobs : AfterPoll(i)
    \/ \E i \in Jobs : Backoff(i)
    \/ \E i \in Jobs : ResetForRetry(i)
    \/ \E i \in Jobs : Finalize(i)
    \/ MonitorCheck
    \/ ExecutorExit
    \/ StopRunning

Spec == Init /\ [][Next]_vars

\* One execution of generate_video_task without a reference image.
InitNoImage == InitWith({1}, {""})

SpecNoImage == InitNoImage /\ [][Next]_vars

\* Several jobs whose every submit is refused with a non-zero code: the jobs meet
\* at the rate limiter only.
InitRefused == InitWith(1 .. MaxJobs, {""})

NextRefused ==
    \/ \E i \in Jobs : StartTask(i)
    \/ \E i \in Jobs : InitTask(i)
    \/ \E i \in Jobs : ValidateImage(i)
    \/ \E i \in Jobs : LoopHead(i)
    \/ \E i \in Jobs : MarkGenerating(i)
    \/ \E i \in Jobs : RateLimitRead(i)
    \/ \E i \in Jobs : RateLimitGrant(i)
    \/ Tick
    \/ \E i \in Jobs : SubmitCall(i, [kind |-> "api_error", msg |-> "m1"])
    \/ \E i \in Jobs : Backoff(i)
    \/ \E i \in Jobs : ResetForRetry(i)
    \/ \E i \in Jobs : Finalize(i)
    \/ MonitorCheck
    \/ ExecutorExit
    \/ StopRunning

SpecRefused == InitRefused /\ [][NextRefused]_vars

\* The worker pool under more jobs than workers: every job carries an invalid
\* reference image and ends at its validation.
InitPool == InitWith(1 .. MaxPoolJobs, {BadUrl})

NextPool ==
    \/ \E i \in Jobs : StartTask(i)
    \/ \E i \in Jobs : InitTask(i)
    \/ \E i \in Jobs : ValidateImage(i)
    \/ MonitorCheck
    \/ ExecutorExit
    \/ StopRunning

SpecPool == InitPool /\ [][NextPool]_vars

\* Several jobs and no interruption: every remote call of the first job returns or
\* raises, the calls of the other jobs return (accepted, succeeded, downloaded whole).
InitRaise == InitWith(1 .. MaxJobs, {""})

Raised == [kind |-> "exception", msg |-> ""]

PollRaised == PollResp("exception", "", "", 0, "")

SubmitOutcomes(i) ==
    IF i = 0 THEN {[kind |-> "ok", msg |-> ""], Raised} ELSE {[kind |-> "ok", msg |-> ""]}

PollOutcomes(i) ==
    IF i = 0 THEN {PollResp("ok", "", "succeeded", 100, GoodUrl), PollRaised}
    ELSE {PollResp("ok", "", "succeeded", 100, GoodUrl)}

DownloadOutcomes == {[kind |-> "ok", total_size |-> 1000, downloaded_size |-> 1000]}

NextRaise ==
    \/ \E i \in Jobs : StartTask(i)
    \/ \E i \in Jobs : InitTask(i)
    \/ \E i \in Jobs : ValidateImage(i)
    \/ \E i \in Jobs : LoopHead(i)
    \/ \E i \in Jobs : MarkGenerating(i)
    \/ \E i \in Jobs : RateLimitRead(i)
    \/ \E i \in Jobs : RateLimitGrant(i)
    \/ Tick
    \/ \E i \in Jobs : \E resp \in SubmitOutcomes(i) : SubmitCall(i, resp)
    \/ \E i \in Jobs : PollHead(i)
    \/ \E i \in Jobs : \E resp \in PollOutcomes(i) : PollCall(i, resp)
    \/ \E i \in Jobs : \E resp \in DownloadOutcomes : Download(i, resp)
    \/ \E i \in Jobs : PollTimeout(i)
    \/ \E i \in Jobs : AfterPoll(i)
    \/ \E i \in Jobs : Backoff(i)
    \/ \E i \in Jobs : ResetForRetry(i)
    \/ \E i \in Jobs : Finalize(i)
    \/ MonitorCheck
    \/ ExecutorExit

\* one step of the worker thread that executes job i
RunnerStep(i) ==
    /\ i \in Jobs
    /\ \/ StartTask(i)
       \/ InitTask(i)
       \/ ValidateImage(i)
       \/ LoopHead(i)
       \/ MarkGenerating(i)
       \/ RateLimitRead(i)
       \/ RateLimitGrant(i)
       \/ \E resp \in SubmitOutcomes(i) : SubmitCall(i, resp)
       \/ PollHead(i)
       \/ \E resp \in PollOutcomes(i) : PollCall(i, resp)
       \/ \E resp \in DownloadOutcomes : Download(i, resp)
       \/ PollTimeout(i)
       \/ AfterPoll(i)
       \/ Backoff(i)
       \/ ResetForRetry(i)
       \/ Finalize(i)

\* every thread that can take a step takes one in the end, and time passes
FairScheduling ==
    /\ \A i \in 0 .. (MaxJobs - 1) : WF_vars(RunnerStep(i))
    /\ WF_vars(Tick)
    /\ WF_vars(MonitorCheck)
    /\ WF_vars(ExecutorExit)

SpecRaise == InitRaise /\ [][NextRaise]_vars /\ FairScheduling

\* The progress display next to the runners: several jobs that end at the validation
\* of their reference image, with display_progress called from the monitor loop and
\* after it.
InitDisplay == InitWith(1 .. MaxJobs, {BadUrl})

NextDisplay ==
    \/ \E i \in Jobs : StartTask(i)
    \/ \E i \in Jobs : InitTask(i)
    \/ \E i \in Jobs : ValidateImage(i)
    \/ MonitorCheck
    \/ ExecutorExit
    \/ StopRunning
    \/ DisplaySnapshot
    \/ DisplayCount
    \/ DisplayLines
    \/ DisplayReturn

SpecDisplay == InitDisplay /\ [][NextDisplay]_vars

\* ------------------------------------------------------------------ properties
StatusEnum == {"pending", "generating", "completed", "failed", "download_failed"}

\* C1: any two grants of rate_limit_api_call are at least one interval (1 second)
\* apart, whichever threads they are made to.
C1_GrantSpacing == grants >= 2 => grant_gap >= Interval

\* C2: the executions of generate_video_task active at the same time never exceed
\* min(max_workers, N), and no job index is ever executed more than once.
C2_BoundedConcurrency ==
    /\ Cardinality(Active) <= Min(max_workers, video_count)
    /\ \A i \in Jobs : runs[i] <= 1 /\ (pc[i] # "queued" => runs[i] = 1)

\* C2 witness: all max_workers threads are busy and a job waits in the queue.
C2_Witness ==
    /\ Cardinality(Active) = max_workers
    /\ \E i \in Jobs : pc[i] = "queued"

\* C3: end_time is set if and only if the status is terminal; a record that is
\* pending or generating never has end_time set, and a finished runner's failed
\* record has it set.
C3_EndTimeIffTerminal ==
    \A i \in Jobs :
        /\ tasks[i].end_time # None => tasks[i].status \in Terminal
        /\ (pc[i] = "done" /\ runs[i] = 1 /\ tasks[i].status \in Terminal)
              => tasks[i].end_time # None

\* C4: once the poll loop has run out of rounds (the record carries the poll-timeout
\* message), no further submit or poll request is made for the job.
C4_NoRetryAfterPollTimeout ==
    [][\A i \in Jobs :
          tasks[i].error = ErrPollTimeout
             => /\ submit_calls'[i] = submit_calls[i]
                /\ poll_calls'[i] <= poll_calls[i]]_vars

AllowedEdges ==
    {<<"pending", "generating">>, <<"generating", "completed">>,
     <<"generating", "failed">>, <<"generating", "download_failed">>,
     <<"failed", "pending">>, <<"download_failed", "pending">>}

\* C5: a record's status changes only along pending -> generating, generating ->
\* completed | failed | download_failed, and failed | download_failed -> pending,
\* the last two only while an attempt remains.
C5_StatusEdges ==
    [][\A i \in Jobs :
          tasks'[i].status # tasks[i].status
             => /\ <<tasks[i].status, tasks'[i].status>> \in AllowedEdges
                /\ tasks'[i].status = "pending" => attempt[i] < max_retries - 1]_vars

\* C6: every record's status is one of the five values of the enum, whatever
\* status the poll response carries.
C6_StatusInEnum == \A i \in Jobs : tasks[i].status \in StatusEnum

\* the job has ended, the process was not stopped, and every submit it made was
\* answered with a non-zero code
ScenarioA(i) ==
    pc[i] = "done" /\ is_running /\ submit_calls[i] >= 1 /\ refused_only[i]

\* C7: if every submit returns a non-zero code, the job makes exactly max_retries
\* submit requests and no poll request, and ends failed with the last API error
\* message and end_time set.
C7_ScenarioA ==
    \A i \in Jobs :
        /\ refused_only[i] => poll_calls[i] = 0 /\ pc[i] # "poll"
        /\ ScenarioA(i)
              => /\ submit_calls[i] = max_retries
                 /\ tasks[i].status = "failed"
                 /\ tasks[i].error = ErrApi(last_submit[i].msg)
                 /\ tasks[i].end_time = Set

\* C7 witness: a job ended after max_retries refused submits.
C7_Witness ==
    \E i \in Jobs : ScenarioA(i) /\ submit_calls[i] = max_retries
                    /\ tasks[i].status = "failed"

\* the job has ended, the process was not stopped, and every attempt failed at
\* its submit
AllSubmitsFailed(i) ==
    pc[i] = "done" /\ is_running /\ submit_calls[i] >= 1 /\ failed_only[i]

\* C8 as stated: with max_retries = 5 and every attempt failing at submit, the
\* waits taken are 1, 2, 4, 8 and 16 seconds.
C8_WaitsOriginal ==
    \A i \in Jobs : AllSubmitsFailed(i) => waits[i] = <<1, 2, 4, 8, 16>>

\* C8 amended: with max_retries = 5 and every attempt failing at submit, the waits
\* taken are 1, 2, 4 and 8 seconds, in that order: 2^attempt seconds after every
\* failed attempt but the last, which is followed by no wait.
C8_Waits ==
    \A i \in Jobs :
        /\ AllSubmitsFailed(i) => waits[i] = <<1, 2, 4, 8>>
        /\ \A k \in 1 .. Len(waits[i]) : waits[i][k] \in {1, 2, 4, 8}

\* C8 witness: a job ended after five attempts that all failed at submit.
C8_Witness ==
    \E i \in Jobs : AllSubmitsFailed(i) /\ submit_calls[i] = 5 /\ Len(waits[i]) = 4

\* C9: when the status leaves download_failed after a truncated download, it is
\* reset to pending: the new attempt begins with a pending record.
C9_RetryFromPending ==
    [][\A i \in Jobs :
          (tasks[i].status = "download_failed" /\ tasks[i].error = ErrIncomplete
           /\ tasks'[i].status # "download_failed")
             => tasks'[i].status = "pending"]_vars

\* the download of job i read its body to the end: length l declared, m received
Downloaded(i, l, m) ==
    /\ dl[i].called
    /\ dl[i].kind = "ok"
    /\ dl[i].total_size = l
    /\ dl[i].downloaded_size = m

DownloadRejected(i) ==
    ~dl[i].file /\ ~dl[i].success /\ tasks[i].status = "download_failed"

C11_CompletedIsFinal ==
    [][\A i \in Jobs :
          tasks[i].status = "completed"
             => /\ submit_calls'[i] = submit_calls[i]
                /\ poll_calls'[i] = poll_calls[i]
                /\ tasks'[i].status = "completed"]_vars

\* C11 witness: a completed job whose runner has returned.
C11_Witness ==
    \E i \in Jobs : tasks[i].status = "completed" /\ pc[i] = "done"
                    /\ submit_calls[i] >= 1 /\ poll_calls[i] >= 1

\* C12: 0 <= retry_count < max_retries for every job in every state.
C12_RetryCountBounded ==
    \A i \in Jobs : 0 <= tasks[i].retry_count /\ tasks[i].retry_count < max_retries

\* C12 witness: the last attempt has begun, retry_count is max_retries - 1.
C12_Witness ==
    \E i \in Jobs : tasks[i].retry_count = max_retries - 1
                    /\ tasks[i].status = "generating"

\* the runner of job i went through the validation of the reference image
Validated(i) == pc[i] \notin {"queued", "init", "validate"} /\ tasks[i].status # "pending"

\* C13: with a non-empty invalid reference image the job is marked failed with the
\* validation error and end_time set, and returns without a submit, poll or
\* download request and without a retry (retry_count stays 0).
C13_InvalidImage ==
    (image_url # "" /\ image_url \notin WellFormedUrls)
       => \A i \in Jobs :
             /\ submit_calls[i] = 0 /\ poll_calls[i] = 0 /\ ~dl[i].called
             /\ tasks[i].retry_count = 0 /\ waits[i] = <<>>
             /\ pc[i] \in {"queued", "init", "validate", "done"}
             /\ Validated(i) => /\ pc[i] = "done"
                                /\ tasks[i].status = "failed"
                                /\ tasks[i].error = ErrImageUrl
                                /\ tasks[i].end_time = Set

\* C13 witness: a job with an invalid reference image has ended at the validation.
C13_Witness ==
    /\ image_url = BadUrl
    /\ \E i \in Jobs : Validated(i) /\ tasks[i].error = ErrImageUrl

\* ------------------------------------------------------------------ C17
\* the download of job i came back whole: the declared length was received
DownloadedWhole(i) ==
    \E l \in {1000} : Downloaded(i, l, l)

\* C17: once the submit was accepted, a poll round answered 'succeeded' with a url and
\* the download delivered the declared length, the job is completed in that attempt
\* with download_path, video_url and end_time set and the progress of the last poll
\* response, and generate_video_task returns True.
C17_ScenarioB ==
    \A i \in Jobs :
        DownloadedWhole(i)
           => /\ tasks[i].status = "completed"
              /\ tasks[i].download_path = DownloadPath
              /\ tasks[i].video_url = dl[i].url
              /\ tasks[i].video_url # ""
              /\ tasks[i].end_time = Set
              /\ tasks[i].progress = dl[i].progress
              /\ tasks[i].retry_count = attempt[i]
              /\ last_submit[i].kind = "ok"
              /\ pc[i] \in {"after_poll", "done"}
              /\ (pc[i] = "done" <=> returned[i] = "True")

C17_Witness ==
    \E i \in Jobs : /\ DownloadedWhole(i)
                     /\ returned[i] = "True"
                     /\ tasks[i].progress = 90
                     /\ attempt[i] > 0

\* ------------------------------------------------------------------ C19
\* C19: a submit call of attempt a > 0 is issued only after the backoff waits of all
\* earlier attempts, whether they failed at submit or in the poll/download phase.
C19_BackoffBeforeResubmit ==
    \A i \in Jobs : pc[i] = "submit" => Len(waits[i]) = attempt[i]

\* ------------------------------------------------------------------ C20
\* C20: over the whole life of a job the end time is written at most once.
C20_EndTimeWrittenOnce ==
    \A i \in Jobs : end_writes[i] <= 1

\* ------------------------------------------------------------------ C14
\* every execution of generate_video_task has returned, and a job that is not in a
\* terminal status was ended by the cancellation flag
PoolReturned ==
    \A i \in Jobs : /\ pc[i] = "done"
                     /\ returned[i] # "none"
                     /\ (is_running => tasks[i].status \in Terminal)

\* C14: the final summary of run_generation is not reached before every runner has
\* finished, with its job in a terminal status unless the cancellation flag ended it
\* early; once the summary is reached no record changes any more.
C14_PoolWaitsForRunners ==
    /\ [](monitor = "summary" => PoolReturned)
    /\ [][monitor = "summary" => tasks' = tasks]_vars

C14_Witness ==
    /\ monitor = "summary"
    /\ video_count > 1
    /\ is_running
    /\ \A i \in Jobs : submit_calls[i] = max_retries

\* ------------------------------------------------------------------ C15
\* the step in which a request of job i raises an unexpected exception
RaisedIn(i) ==
    \/ SubmitCall(i, Raised)
    \/ PollCall(i, PollRaised)

\* the exception is recorded in the record of job i and nowhere else
Caught(i) ==
    /\ tasks'[i].error \in {ErrException, ErrPollException}
    /\ pc'[i] \in {"backoff", "poll_head"}
    /\ \A j \in Jobs \ {i} : /\ tasks'[j] = tasks[j]
                              /\ pc'[j] = pc[j]
                              /\ attempt'[j] = attempt[j]
                              /\ poll_attempt'[j] = poll_attempt[j]
                              /\ dl'[j] = dl[j]
                              /\ returned'[j] = returned[j]

\* every runner ends, with its job in a terminal status
RunnersEnd ==
    <>[](\A i \in Jobs : pc[i] = "done" /\ tasks[i].status \in Terminal)

\* C15 as stated: an exception in a submit or poll step is caught and recorded in the
\* job's own error field, the job ends in a terminal failed status, and no sibling is
\* touched: every other runner ends in its own terminal status.
C15_ExceptionIsolatedOriginal ==
    /\ [][\A i \in Jobs : RaisedIn(i) => Caught(i)]_vars
    /\ [](\A i \in Jobs :
             (pc[i] = "done" /\ tasks[i].error \in {ErrException, ErrPollException})
                => tasks[i].status \in {"failed", "download_failed"})
    /\ RunnersEnd

\* C15 amended: an exception in a submit or poll step is caught and recorded in the
\* job's own error field, the runner goes on (next poll round, or backoff and retry)
\* and the job ends in a terminal status, which may be completed; no sibling is
\* touched by the step and every other runner ends in its own terminal status.
C15_ExceptionIsolated ==
    /\ [][\A i \in Jobs : RaisedIn(i) => Caught(i)]_vars
    /\ RunnersEnd

C15_Witness ==
    /\ video_count > 1
    /\ \A i \in Jobs : pc[i] = "done"
    /\ \E i \in Jobs : tasks[i].status = "failed" /\ tasks[i].error = ErrException
    /\ \E j \in Jobs : tasks[j].status = "completed" /\ tasks[j].error = ""

\* ------------------------------------------------------------------ C18
\* C18: when the cancellation flag is never set and every remote call returns or
\* raises, fair scheduling leads every job to a finished runner, a terminal status and
\* an end time, and run_generation to its final summary.
C18_Liveness ==
    <>(/\ monitor = "summary"
       /\ \A i \in Jobs : /\ pc[i] = "done"
                          /\ tasks[i].status \in Terminal
                          /\ tasks[i].end_time = Set)

C18_Witness ==
    /\ monitor = "summary"
    /\ is_running
    /\ video_count > 1
    /\ \E i \in Jobs : tasks[i].status = "failed" /\ submit_calls[i] = max_retries
    /\ \E j \in Jobs : tasks[j].status = "completed"

\* ------------------------------------------------------------------ C16
\* C16: what display_progress reads through tasks_copy is what the records held when
\* the copy was made: the three counts and the lines agree with that one moment.
C16_SnapshotIndependent ==
    /\ disp \in {"count_failed", "count_running", "lines", "shown"}
          => shown.completed = CountStatus(snap, {"completed"})
    /\ disp \in {"count_running", "lines", "shown"}
          => shown.failed = CountStatus(snap, {"failed", "download_failed"})
    /\ disp \in {"lines", "shown"}
          => shown.running = CountStatus(snap, {"generating", "pending"})
    /\ disp = "shown" => shown.lines = snap

\* ------------------------------------------------------------------ C23
\* C23: a runner that has stopped after at least one submit, the attempts used up or
\* the running flag cleared, has left its record with an end time.
C23_EndTimeAtStop ==
    \A i \in Jobs :
        (pc[i] = "done" /\ submit_calls[i] >= 1) => tasks[i].end_time = Set

\* ------------------------------------------------------------------ C24
\* C24: a record just marked generating for an attempt after the first has progress 0.
C24_ProgressResetOnRetry ==
    \A i \in Jobs :
        (pc[i] = "rl_submit" /\ attempt[i] > 0) => tasks[i].progress = 0

\* ------------------------------------------------------------------ C25
\* C25: a record just marked generating for a new attempt has an empty error.
C25_ErrorClearedOnAttempt ==
    \A i \in Jobs :
        (pc[i] = "rl_submit" /\ tasks[i].status = "generating") => tasks[i].error = ""

\* ------------------------------------------------------------------ C26
\* a poll response 'succeeded' with the given progress and no result url
SucceededNoUrl(progress) == PollResp("ok", "", "succeeded", progress, "")

\* C26: a poll response 'succeeded' without a result url starts no download and
\* changes nothing on the record but the progress (the status stays generating), and
\* the runner goes to the next poll round of the same attempt.
C26_SucceededWithoutUrl ==
    [][\A i \in Jobs :
          PollCall(i, SucceededNoUrl(100))
             => /\ tasks'[i] = [tasks[i] EXCEPT !.progress = 100]
                /\ tasks'[i].status = "generating"
                /\ ~dl'[i].called
                /\ pc'[i] = "poll_head"
                /\ attempt'[i] = attempt[i]]_vars

\* ------------------------------------------------------------------ C27
\* C27: a record with a video_url or a download_path is completed.
C27_UrlOnlyWhenCompleted ==
    \A i \in Jobs :
        (tasks[i].video_url # "" \/ tasks[i].download_path # "")
           => tasks[i].status = "completed"

C27_Witness ==
    \E i \in Jobs : /\ tasks[i].video_url = GoodUrl
                     /\ tasks[i].download_path = DownloadPath
                     /\ tasks[i].retry_count > 0
                     /\ ~is_running

\* ------------------------------------------------------------------ C29
\* the poll request of job i ends in a transport error
PollTransportError(i) ==
    \E k \in {"timeout", "connection_error", "http_error"} :
        PollCall(i, PollResp(k, "", "", 0, ""))

\* C29: a job issues at most max_retries submit calls and, after each accepted
\* submit, at most max_poll_attempts poll calls; a transport error of a poll request
\* leaves retry_count and the attempt as they are.
C29_CallBudget ==
    /\ [](\A i \in Jobs : /\ submit_calls[i] <= max_retries
                          /\ poll_calls[i] <= max_poll_attempts)
    /\ [][\A i \in Jobs :
             PollTransportError(i)
                => /\ tasks'[i].retry_count = tasks[i].retry_count
                   /\ attempt'[i] = attempt[i]
                   /\ submit_calls'[i] = submit_calls[i]]_vars

C29_Witness ==
    \E i \in Jobs : /\ submit_calls[i] = max_retries
                     /\ poll_calls[i] = max_poll_attempts
                     /\ tasks[i].error = ErrPollConnection
                     /\ tasks[i].retry_count = max_retries - 1

\* ------------------------------------------------------------------ C30
\* the all-done test of the monitor loop, lines 971-977
AllDone == \A i \in Jobs : tasks[i].status \in Terminal

\* job i is between two attempts: the runner will mark it generating again
BetweenAttempts(i) ==
    \/ pc[i] = "backoff" /\ NotLastAttempt(attempt[i]) /\ tasks[i].status = "failed"
    \/ pc[i] = "reset"
    \/ pc[i] = "after_poll" /\ NotLastAttempt(attempt[i])
                            /\ ~AttemptSucceeded(tasks[i].status)

\* C30: while the process is running, the all-done test is not true while a job is
\* between two attempts.
C30_AllDoneMeansFinished ==
    (is_running /\ AllDone) => \A i \in Jobs : ~BetweenAttempts(i)

C22_StopsAtCheckpoint ==
    /\ [](\A i \in Jobs : calls_after_stop[i] <= 1)
    /\ [][\A i \in Jobs :
             ~is_running
                => /\ pc[i] = "queued" => pc'[i] \in {"queued", "done"}
                   /\ pc[i] = "loop_head" => pc'[i] \in {"loop_head", "final", "done"}
                   /\ pc[i] = "poll_head"
                         => pc'[i] \in {"poll_head", "poll_timeout", "after_poll"}
                   /\ waits'[i] = waits[i]]_vars

C22_Witness ==
    \E i \in Jobs : /\ ~is_running
                     /\ calls_after_stop[i] = 1
                     /\ poll_calls[i] = 0
                     /\ last_submit[i].kind = "ok"
                     /\ pc[i] = "loop_head"
                     /\ tasks[i].status = "generating"

\* ------------------------------------------------------------------ C21
\* the step of job i kept the lock discipline, and wrote its record only if the
\* handler has a write
StepLocked(i, events) ==
    /\ LockDiscipline(events, FALSE)
    /\ tasks'[i] # tasks[i] => \E k \in 1 .. Len(events) : events[k] = "write"

====
